---- MODULE Spec2Model ----
(***************************************************************************)
(* A run of experiments/demo/demo.ipynb, cells executed top to bottom.     *)
(*                                                                         *)
(* Real-valued quantities (z, lambdavec, c2) are held as exact fractions   *)
(* <<numerator, denominator>> in lowest terms with a positive denominator. *)
(* The calls into lib/layerstack and lib/plottools are opaque: a call      *)
(* either returns a value that is a function of its arguments or raises,   *)
(* and a raise is not caught anywhere in the notebook.                     *)
(***************************************************************************)
EXTENDS Integers, Sequences, FiniteSets, TLC

\* ------------------------------------------------------------------ bounds
MaxLayers == 4      \* small layer counts 2..MaxLayers explored beside 100
MaxH      == 2      \* small thicknesses 1..MaxH explored beside 2000

\* ------------------------------------------------------- program literals
H_demo        == 2000   \* H        = 2000
N_layers_demo == 100    \* N_layers = 100
N_coef        == 6      \* np.zeros((N_layers,6), ...)
N_frames      == 50     \* N_frames = 50

Thicknesses == (1..MaxH) \cup {H_demo}
LayerCounts == (2..MaxLayers) \cup {N_layers_demo}

\* ------------------------------------------------------ exact arithmetic
RECURSIVE GCD(_, _)
GCD(a, b) == IF b = 0 THEN a ELSE GCD(b, a % b)

Abs(n) == IF n < 0 THEN -n ELSE n

\* the fraction n/d (d # 0) in lowest terms, denominator positive
Rat(n, d) ==
    LET s == IF d < 0 THEN -1 ELSE 1
        g == GCD(Abs(n), Abs(d))
    IN  <<(s * n) \div g, (s * d) \div g>>

RatAdd(a, b) == Rat(a[1] * b[2] + b[1] * a[2], a[2] * b[2])
RatSub(a, b) == Rat(a[1] * b[2] - b[1] * a[2], a[2] * b[2])
RatMul(a, b) == Rat(a[1] * b[1], a[2] * b[2])
RatDiv(a, b) == Rat(a[1] * b[2], a[2] * b[1])
RatLess(a, b) == a[1] * b[2] < b[1] * a[2]
RatZero == Rat(0, 1)
RatOne  == Rat(1, 1)

\* linspace with endpoint=False: num samples that stop short of stop
linspace_noendpoint(start, stop, num) ==
    LET step == RatDiv(RatSub(stop, start), Rat(num, 1))
    IN  [i \in 0..(num - 1) |-> RatAdd(RatMul(Rat(i, 1), step), start)]

\* np.linspace(start, stop, num) for num >= 2 (endpoint=True):
\*   step = (stop - start) / (num - 1); y[i] = i*step + start; y[-1] = stop
linspace(start, stop, num) ==
    LET step == RatDiv(RatSub(stop, start), Rat(num - 1, 1))
    IN  [i \in 0..(num - 1) |->
            IF i = num - 1 THEN stop
            ELSE RatAdd(RatMul(Rat(i, 1), step), start)]

\* np.zeros(shape): a real zero, and a complex zero for dtype=complex128
CZero == <<"0j">>
zeros3x3(n) == [l \in 0..(n - 1) |-> [a \in 0..2 |-> [b \in 0..2 |-> RatZero]]]
zerosNx6(n) == [l \in 0..(n - 1) |-> [k \in 0..(N_coef - 1) |-> CZero]]

\* Python sequence indexing: a negative index counts from the end
PyIndex(I, n) == IF I < 0 THEN n + I ELSE I
InRange(I, n) == PyIndex(I, n) \in 0..(n - 1)

\* int(N_layers/2) for a positive N_layers: true division, then truncation
IntHalf(n) == n \div 2

\* the index list with the first layer written as 0
PlotIndices_top(n) == <<0, IntHalf(n), -1>>

\* the layer indices of the plot_ODF loop: [1, int(N_layers/2), -1]
PlotIndices(n) == <<1, IntHalf(n), -1>>

\* ------------------------------------------------------- external library
\* c2_to_nlm(c2) returns (nlm, lm): six spectral coefficients and an index
\* list, both determined by the tensor passed in.
c2_to_nlm(t) ==
    [nlm |-> [k \in 0..(N_coef - 1) |-> <<"n", t, k>>], lm |-> <<"lm", t>>]

\* ------------------------------------------------------------------ state
VARIABLES
    pc,         \* the statement to execute next
    fault,      \* "none", or the external call that raised
    H,          \* ice column thickness
    N_layers,   \* number of layers
    z,          \* interface positions
    c2,         \* structure tensors
    nlm,        \* spectral coefficients
    lambdavec,  \* principal eigenvalue with depth
    ii,         \* loop variable of the conversion loop (NoIndex: unbound)
    lm,         \* index list returned by c2_to_nlm
    nplots,     \* iterations of the plot_ODF loop started
    lstack,     \* the LayerStack object
    returns,    \* result of get_returns
    eigbasis,   \* result of get_eigenbasis
    calls,      \* history: the external calls made, in order
    stores      \* history: the stores into nlm after its allocation

vars == <<pc, fault, H, N_layers, z, c2, nlm, lambdavec, ii, lm, nplots,
          lstack, returns, eigbasis, calls, stores>>

Unbound == <<>>
NoIndex == -1

\* the statements in program order
Program == <<"z", "c2", "nlm", "lambdavec", "c2_00", "c2_11", "c2_22",
             "for_ii", "zero_top", "for_I", "LayerStack", "get_returns",
             "get_eigenbasis", "plot_returns", "show", "done">>

Pos(p) == CHOOSE i \in 1..Len(Program) : Program[i] = p
After(p) == Pos(pc) > Pos(p)

Init ==
    /\ pc = "z"
    /\ fault = "none"
    /\ H \in Thicknesses
    /\ N_layers \in LayerCounts
    /\ z = Unbound
    /\ c2 = Unbound
    /\ nlm = Unbound
    /\ lambdavec = Unbound
    /\ ii = NoIndex
    /\ lm = Unbound
    /\ nplots = 0
    /\ lstack = Unbound
    /\ returns = Unbound
    /\ eigbasis = Unbound
    /\ calls = <<>>
    /\ stores = <<>>

Running(p) == pc = p /\ fault = "none"

\* a raise that is caught and ignored
Raise_swallowed(fn, arg) ==
    /\ fault' = fault
    /\ calls' = Append(calls, [fn |-> fn, arg |-> arg, ok |-> FALSE])

\* an external call that raises: the run stops at the calling statement
Raise(fn, arg) ==
    /\ fault' = fn
    /\ calls' = Append(calls, [fn |-> fn, arg |-> arg, ok |-> FALSE])

Return(fn, arg) ==
    /\ fault' = fault
    /\ calls' = Append(calls, [fn |-> fn, arg |-> arg, ok |-> TRUE])

\* z = np.linspace(0,-H, N_layers)
AssignZ ==
    /\ Running("z")
    /\ z' = linspace(Rat(0, 1), Rat(-H, 1), N_layers)
    /\ pc' = "c2"
    /\ UNCHANGED <<fault, H, N_layers, c2, nlm, lambdavec, ii, lm, nplots,
                   lstack, returns, eigbasis, calls, stores>>

\* c2 = np.zeros((N_layers,3,3))
AllocC2 ==
    /\ Running("c2")
    /\ c2' = zeros3x3(N_layers)
    /\ pc' = "nlm"
    /\ UNCHANGED <<fault, H, N_layers, z, nlm, lambdavec, ii, lm, nplots,
                   lstack, returns, eigbasis, calls, stores>>

\* nlm = np.zeros((N_layers,6), dtype=np.complex128)
AllocNlm ==
    /\ Running("nlm")
    /\ nlm' = zerosNx6(N_layers)
    /\ pc' = "lambdavec"
    /\ UNCHANGED <<fault, H, N_layers, z, c2, lambdavec, ii, lm, nplots,
                   lstack, returns, eigbasis, calls, stores>>

\* lambdavec = np.linspace(1.5/3, 0.9, N_layers)
AssignLambdavec ==
    /\ Running("lambdavec")
    /\ lambdavec' = linspace(RatDiv(Rat(15, 10), Rat(3, 1)), Rat(9, 10), N_layers)
    /\ pc' = "c2_00"
    /\ UNCHANGED <<fault, H, N_layers, z, c2, nlm, ii, lm, nplots,
                   lstack, returns, eigbasis, calls, stores>>

\* the store going to c2[:,0,a] instead of the diagonal
SetDiag_offdiag(a, v) == [l \in 0..(N_layers - 1) |-> [c2[l] EXCEPT ![0][a] = v[l]]]

\* c2[:,a,a] = v, v one value per layer
SetDiag(a, v) == [l \in 0..(N_layers - 1) |-> [c2[l] EXCEPT ![a][a] = v[l]]]

\* c2[:,0,0] given the factor of c2[:,1,1]
AssignC2_00_seven ==
    /\ Running("c2_00")
    /\ c2' = SetDiag(0, [l \in 0..(N_layers - 1) |->
                 RatMul(RatDiv(Rat(7, 1), Rat(10, 1)), RatSub(RatOne, lambdavec[l]))])
    /\ pc' = "c2_11"
    /\ UNCHANGED <<fault, H, N_layers, z, nlm, lambdavec, ii, lm, nplots,
                   lstack, returns, eigbasis, calls, stores>>

\* c2[:,0,0] = 3/10*(1-lambdavec)
AssignC2_00 ==
    /\ Running("c2_00")
    /\ c2' = SetDiag(0, [l \in 0..(N_layers - 1) |->
                 RatMul(RatDiv(Rat(3, 1), Rat(10, 1)), RatSub(RatOne, lambdavec[l]))])
    /\ pc' = "c2_11"
    /\ UNCHANGED <<fault, H, N_layers, z, nlm, lambdavec, ii, lm, nplots,
                   lstack, returns, eigbasis, calls, stores>>

\* c2[:,1,1] given the factor of c2[:,0,0]
AssignC2_11_three ==
    /\ Running("c2_11")
    /\ c2' = SetDiag(1, [l \in 0..(N_layers - 1) |->
                 RatMul(RatDiv(Rat(3, 1), Rat(10, 1)), RatSub(RatOne, lambdavec[l]))])
    /\ pc' = "c2_22"
    /\ UNCHANGED <<fault, H, N_layers, z, nlm, lambdavec, ii, lm, nplots,
                   lstack, returns, eigbasis, calls, stores>>

\* c2[:,1,1] = 7/10*(1-lambdavec)
AssignC2_11 ==
    /\ Running("c2_11")
    /\ c2' = SetDiag(1, [l \in 0..(N_layers - 1) |->
                 RatMul(RatDiv(Rat(7, 1), Rat(10, 1)), RatSub(RatOne, lambdavec[l]))])
    /\ pc' = "c2_22"
    /\ UNCHANGED <<fault, H, N_layers, z, nlm, lambdavec, ii, lm, nplots,
                   lstack, returns, eigbasis, calls, stores>>

\* c2[:,2,2] = lambdavec
AssignC2_22 ==
    /\ Running("c2_22")
    /\ c2' = SetDiag(2, lambdavec)
    /\ pc' = "for_ii"
    /\ UNCHANGED <<fault, H, N_layers, z, nlm, lambdavec, ii, lm, nplots,
                   lstack, returns, eigbasis, calls, stores>>

\* a range that steps by two
NextLayer_skip == ii + 2

\* the next value np.arange(N_layers) yields after ii
NextLayer == ii + 1

\* one iteration of: for ii in np.arange(N_layers):
\*                       nlm[ii,:], lm = c2_to_nlm(c2[ii,:,:])
ConvertLayer ==
    /\ Running("for_ii")
    /\ NextLayer < N_layers
    /\ ii' = NextLayer
    /\ pc' = pc
    /\ \/ /\ Return("c2_to_nlm", NextLayer)
          /\ nlm' = [nlm EXCEPT ![NextLayer] = c2_to_nlm(c2[NextLayer]).nlm]
          /\ lm' = c2_to_nlm(c2[NextLayer]).lm
          /\ stores' = Append(stores, [row |-> NextLayer, cols |-> 0..(N_coef - 1)])
       \/ /\ Raise("c2_to_nlm", NextLayer)
          /\ UNCHANGED <<nlm, lm, stores>>
    /\ UNCHANGED <<H, N_layers, z, c2, lambdavec, nplots, lstack, returns, eigbasis>>

\* the loop end running on into the plot loop, the zeroing left out
ConvertDone_skipzero ==
    /\ Running("for_ii")
    /\ ~(NextLayer < N_layers)
    /\ pc' = "for_I"
    /\ UNCHANGED <<fault, H, N_layers, z, c2, nlm, lambdavec, ii, lm, nplots,
                   lstack, returns, eigbasis, calls, stores>>

\* np.arange(N_layers) is exhausted: the loop ends
ConvertDone ==
    /\ Running("for_ii")
    /\ ~(NextLayer < N_layers)
    /\ pc' = "zero_top"
    /\ UNCHANGED <<fault, H, N_layers, z, c2, nlm, lambdavec, ii, lm, nplots,
                   lstack, returns, eigbasis, calls, stores>>

\* nlm[0, 2:] = 0: the slice starting one column late
ZeroTop_from2 ==
    /\ Running("zero_top")
    /\ nlm' = [nlm EXCEPT ![0] = [k \in 0..(N_coef - 1) |->
                                     IF k >= 2 THEN CZero ELSE nlm[0][k]]]
    /\ stores' = Append(stores, [row |-> 0, cols |-> 2..(N_coef - 1)])
    /\ pc' = "for_I"
    /\ UNCHANGED <<fault, H, N_layers, z, c2, lambdavec, ii, lm, nplots,
                   lstack, returns, eigbasis, calls>>

\* nlm[0, :] = 0: the whole top row zeroed
ZeroTop_wholerow ==
    /\ Running("zero_top")
    /\ nlm' = [nlm EXCEPT ![0] = [k \in 0..(N_coef - 1) |-> CZero]]
    /\ stores' = Append(stores, [row |-> 0, cols |-> 1..(N_coef - 1)])
    /\ pc' = "for_I"
    /\ UNCHANGED <<fault, H, N_layers, z, c2, lambdavec, ii, lm, nplots,
                   lstack, returns, eigbasis, calls>>

\* nlm[0, 1:] = 0
ZeroTop ==
    /\ Running("zero_top")
    /\ nlm' = [nlm EXCEPT ![0] = [k \in 0..(N_coef - 1) |->
                                     IF k >= 1 THEN CZero ELSE nlm[0][k]]]
    /\ stores' = Append(stores, [row |-> 0, cols |-> 1..(N_coef - 1)])
    /\ pc' = "for_I"
    /\ UNCHANGED <<fault, H, N_layers, z, c2, lambdavec, ii, lm, nplots,
                   lstack, returns, eigbasis, calls>>

\* one iteration of: for I in [1, int(N_layers/2), -1]:
\*                       plot_ODF(nlm[I,:], lm, ..., cblabel=...%(z[I]*1e-3))
PlotODF ==
    /\ Running("for_I")
    /\ nplots < Len(PlotIndices(N_layers))
    /\ nplots' = nplots + 1
    /\ pc' = pc
    /\ LET I == PlotIndices(N_layers)[nplots + 1]
       IN  IF InRange(I, N_layers) /\ lm # Unbound
           THEN LET arg == [I |-> I, nlm |-> nlm[PyIndex(I, N_layers)], lm |-> lm,
                            z |-> z[PyIndex(I, N_layers)]]
                IN  Return("plot_ODF", arg) \/ Raise("plot_ODF", arg)
           ELSE \* IndexError / NameError raised by the notebook's own expression
                /\ fault' = "index"
                /\ calls' = calls
    /\ UNCHANGED <<H, N_layers, z, c2, nlm, lambdavec, ii, lm, lstack, returns,
                   eigbasis, stores>>

\* the index list is exhausted: the first cell ends
PlotDone ==
    /\ Running("for_I")
    /\ ~(nplots < Len(PlotIndices(N_layers)))
    /\ pc' = "LayerStack"
    /\ UNCHANGED <<fault, H, N_layers, z, c2, nlm, lambdavec, ii, lm, nplots,
                   lstack, returns, eigbasis, calls, stores>>

\* lstack = LayerStack(nlm, z, N_frames=N_frames, epsa=[epsa], epsc=[epsc], sigma=[sigma])
NewLayerStack ==
    /\ Running("LayerStack")
    /\ LET arg == [nlm |-> nlm, z |-> z, N_frames |-> N_frames]
       IN  \/ /\ Return("LayerStack", arg)
              /\ lstack' = <<"LayerStack", arg>>
              /\ pc' = "get_returns"
           \/ /\ Raise("LayerStack", arg)
              /\ UNCHANGED <<lstack, pc>>
    /\ UNCHANGED <<H, N_layers, z, c2, nlm, lambdavec, ii, lm, nplots, returns,
                   eigbasis, stores>>

\* returns = lstack.get_returns(E0, f=f, alpha=alpha)
GetReturns ==
    /\ Running("get_returns")
    /\ \/ /\ Return("get_returns", lstack)
          /\ returns' = <<"returns", lstack>>
          /\ pc' = "get_eigenbasis"
       \/ /\ Raise("get_returns", lstack)
          /\ UNCHANGED <<returns, pc>>
    /\ UNCHANGED <<H, N_layers, z, c2, nlm, lambdavec, ii, lm, nplots, lstack,
                   eigbasis, stores>>

\* (eigvals, e1,e2,e3, a2) = lstack.get_eigenbasis()
GetEigenbasis ==
    /\ Running("get_eigenbasis")
    /\ \/ /\ Return("get_eigenbasis", lstack)
          /\ eigbasis' = <<"eigenbasis", lstack>>
          /\ pc' = "plot_returns"
       \/ /\ Raise("get_eigenbasis", lstack)
          /\ UNCHANGED <<eigbasis, pc>>
    /\ UNCHANGED <<H, N_layers, z, c2, nlm, lambdavec, ii, lm, nplots, lstack,
                   returns, stores>>

\* (plt, *_) = plot_returns(lstack.z, returns, a2, eigvals)
PlotReturns ==
    /\ Running("plot_returns")
    /\ LET arg == [returns |-> returns, eigbasis |-> eigbasis]
       IN  \/ /\ Return("plot_returns", arg)
              /\ pc' = "show"
           \/ /\ Raise("plot_returns", arg)
              /\ pc' = pc
    /\ UNCHANGED <<H, N_layers, z, c2, nlm, lambdavec, ii, lm, nplots, lstack,
                   returns, eigbasis, stores>>

\* plt.show()
Show ==
    /\ Running("show")
    /\ \/ /\ Return("show", Unbound)
          /\ pc' = "done"
       \/ /\ Raise("show", Unbound)
          /\ pc' = pc
    /\ UNCHANGED <<H, N_layers, z, c2, nlm, lambdavec, ii, lm, nplots, lstack,
                   returns, eigbasis, stores>>

Next ==
    \/ AssignZ
    \/ AllocC2
    \/ AllocNlm
    \/ AssignLambdavec
    \/ AssignC2_00
    \/ AssignC2_11
    \/ AssignC2_22
    \/ ConvertLayer
    \/ ConvertDone
    \/ ZeroTop
    \/ PlotODF
    \/ PlotDone
    \/ NewLayerStack
    \/ GetReturns
    \/ GetEigenbasis
    \/ PlotReturns
    \/ Show

Spec == Init /\ [][Next]_vars

\* the kernel runs the conversion loop on until its range is exhausted or a
\* call raises: an iteration that can be taken is taken
FairSpec == Spec /\ WF_vars(ConvertLayer \/ ConvertDone)


\* ------------------------------------------------------------ properties
Layers == 0..(N_layers - 1)
Aniso  == 1..(N_coef - 1)
ZeroTopStore == [row |-> 0, cols |-> Aniso]
CallsOf(fn) == {i \in 1..Len(calls) : calls[i].fn = fn}

\* C1: once nlm[0, 1:] = 0 has executed, nlm[0,k] = 0 for k in 1..5 in every
\* later state, also in the array handed to LayerStack and held by it when
\* get_returns is called, and no later statement stores into row 0 of nlm.
C1_TopLayerIsotropic ==
    /\ [](After("zero_top") =>
            /\ \A k \in Aniso : nlm[0][k] = CZero
            /\ stores[Len(stores)] = ZeroTopStore
            /\ \A i \in CallsOf("LayerStack") :
                   \A k \in Aniso : calls[i].arg.nlm[0][k] = CZero
            /\ \A i \in CallsOf("get_returns") :
                   \A k \in Aniso : calls[i].arg[2].nlm[0][k] = CZero)
    /\ [][After("zero_top") => nlm'[0] = nlm[0]]_vars

C1_Witness ==
    /\ pc = "done"
    /\ N_layers = N_layers_demo
    /\ nlm[0][0] # CZero
    /\ nlm[0][1] = CZero
    /\ nlm[1][1] # CZero
    /\ CallsOf("get_returns") # {}

\* the order of the external calls of a complete run over n layers
CallOrder(n) ==
    [i \in 1..(n + 8) |->
        IF i <= n THEN "c2_to_nlm"
        ELSE IF i <= n + 3 THEN "plot_ODF"
        ELSE IF i = n + 4 THEN "LayerStack"
        ELSE IF i = n + 5 THEN "get_returns"
        ELSE IF i = n + 6 THEN "get_eigenbasis"
        ELSE IF i = n + 7 THEN "plot_returns"
        ELSE "show"]

Zeroed == Len(stores) > 0 /\ stores[Len(stores)] = ZeroTopStore

\* C2: the external calls happen in one fixed order: N_layers calls of
\* c2_to_nlm, the top-layer zeroing, the plot_ODF calls, LayerStack,
\* get_returns, get_eigenbasis, plot_returns; LayerStack is never constructed
\* before the zeroing, get_returns never before LayerStack has returned, and
\* plot_returns never before get_returns and get_eigenbasis have returned.
C2_SequentialOrder ==
    /\ Len(calls) <= N_layers + 8
    /\ \A i \in 1..Len(calls) : calls[i].fn = CallOrder(N_layers)[i]
    /\ Zeroed => \A i \in 1..N_layers : i <= Len(calls) /\ calls[i].ok
    /\ (CallsOf("plot_ODF") \cup CallsOf("LayerStack")) # {} => Zeroed
    /\ \A i \in CallsOf("get_returns") :
           lstack # Unbound /\ calls[i - 1].fn = "LayerStack" /\ calls[i - 1].ok
    /\ \A i \in CallsOf("plot_returns") :
           /\ returns # Unbound /\ eigbasis # Unbound
           /\ \E j \in CallsOf("get_returns") : j < i /\ calls[j].ok
           /\ \E j \in CallsOf("get_eigenbasis") : j < i /\ calls[j].ok

C2_Witness ==
    /\ pc = "show"
    /\ N_layers = 3
    /\ Len(calls) = N_layers + 7
    /\ calls[Len(calls)].fn = "plot_returns"
    /\ calls[Len(calls)].ok

\* C3: z has exactly N_layers entries, starts at 0, decreases strictly and
\* ends at -H.
C3_InterfacePositions ==
    After("z") =>
        /\ DOMAIN z = Layers
        /\ z[0] = Rat(0, 1)
        /\ \A i \in 0..(N_layers - 2) : RatLess(z[i + 1], z[i])
        /\ z[N_layers - 1] = Rat(-H, 1)

C3_Witness ==
    /\ pc = "c2"
    /\ H = H_demo
    /\ N_layers = N_layers_demo
    /\ z[1] = Rat(-2000, 99)
    /\ z[99] = Rat(-2000, 1)

\* C4: c2 holds one 3x3 tensor per layer, every tensor is symmetric, only the
\* diagonal entries are ever assigned and every off-diagonal entry stays 0.
C4_SymmetricTensors ==
    /\ [](After("c2") =>
            /\ DOMAIN c2 = Layers
            /\ \A l \in Layers :
                  /\ DOMAIN c2[l] = 0..2
                  /\ \A a \in 0..2 : DOMAIN c2[l][a] = 0..2
                  /\ \A a, b \in 0..2 : c2[l][a][b] = c2[l][b][a]
                  /\ \A a, b \in 0..2 : a # b => c2[l][a][b] = RatZero)
    /\ [][After("c2") =>
            \A l \in Layers : \A a, b \in 0..2 :
                a # b => c2'[l][a][b] = c2[l][a][b]]_vars

C4_Witness ==
    /\ pc = "for_ii"
    /\ ii = 1
    /\ N_layers = 3
    /\ c2[1][0][0] # RatZero
    /\ c2[1][1][1] # RatZero
    /\ c2[1][2][2] # RatZero
    /\ c2[1][0][1] = RatZero

\* C5: after the construction part every row ii >= 1 of nlm is the vector
\* c2_to_nlm returns for c2[ii], nlm[0,0] is the first component returned for
\* c2[0], and the zeroing changes nlm[0,1..5] only: nlm[0,0], the other rows,
\* c2 and z are left as they were.
C5_RowsFromOwnLayer ==
    /\ [](After("zero_top") =>
            /\ \A l \in Layers \ {0} : nlm[l] = c2_to_nlm(c2[l]).nlm
            /\ nlm[0][0] = c2_to_nlm(c2[0]).nlm[0])
    /\ [][pc = "zero_top" =>
            /\ nlm'[0][0] = nlm[0][0]
            /\ \A l \in Layers \ {0} : nlm'[l] = nlm[l]
            /\ c2' = c2
            /\ z' = z]_vars

C5_Witness ==
    /\ pc = "for_I"
    /\ N_layers = 4
    /\ nlm[3] = c2_to_nlm(c2[3]).nlm
    /\ nlm[3] # c2_to_nlm(c2[2]).nlm
    /\ nlm[0] # c2_to_nlm(c2[0]).nlm

\* the statement each external call is made from
CallSite(fn) ==
    CASE fn = "c2_to_nlm" -> "for_ii"
      [] fn = "plot_ODF" -> "for_I"
      [] OTHER -> fn

\* C6: a failing external call is not handled: the run stops at that call and
\* no later statement executes; a c2_to_nlm failure means the zeroing, the
\* LayerStack construction and get_returns never run.
C6_FailureStopsRun ==
    /\ [](/\ \A i \in 1..Len(calls) :
                ~calls[i].ok => i = Len(calls) /\ fault = calls[i].fn
          /\ fault # "none" =>
                /\ Len(calls) > 0
                /\ ~calls[Len(calls)].ok
                /\ pc = CallSite(fault)
          /\ fault = "c2_to_nlm" =>
                /\ ~Zeroed
                /\ lstack = Unbound
                /\ returns = Unbound
                /\ CallsOf("LayerStack") \cup CallsOf("get_returns") = {})
    /\ [][fault = "none"]_vars

C6_Witness ==
    /\ fault = "c2_to_nlm"
    /\ N_layers = 4
    /\ ii = 2
    /\ Len(calls) = 3
    /\ nlm[1] # zerosNx6(N_layers)[1]
    /\ nlm[2] = zerosNx6(N_layers)[2]

\* C7: provided every c2_to_nlm call returns, the conversion loop ends after
\* exactly N_layers iterations: one call per layer in the order
\* 0, 1, ..., N_layers-1, each row of nlm stored exactly once, and no index
\* outside 0..N_layers-1 used.
C7_LoopOncePerLayer ==
    /\ [](/\ \A i \in CallsOf("c2_to_nlm") :
                calls[i].arg = i - 1 /\ calls[i].arg \in Layers
          /\ ii \in Layers \cup {NoIndex}
          /\ pc = "for_ii" /\ fault = "none" =>
                /\ Len(calls) = ii + 1
                /\ Len(stores) = ii + 1
          /\ After("for_ii") =>
                /\ Cardinality(CallsOf("c2_to_nlm")) = N_layers
                /\ ii = N_layers - 1
                /\ \A l \in Layers :
                      stores[l + 1] = [row |-> l, cols |-> 0..(N_coef - 1)]
                /\ \A i \in 1..Len(stores) :
                      stores[i].cols = 0..(N_coef - 1) => i <= N_layers)
    /\ (pc = "for_ii") ~> (After("for_ii") \/ fault = "c2_to_nlm")

C7_Witness ==
    /\ pc = "zero_top"
    /\ N_layers = N_layers_demo
    /\ Len(calls) = N_layers_demo
    /\ Len(stores) = N_layers_demo
    /\ ii = N_layers_demo - 1

\* C8: lambdavec is the largest diagonal entry in every layer,
\* c2[ii,2,2] = lambdavec[ii] > c2[ii,1,1] > c2[ii,0,0], and lambdavec
\* increases strictly with depth from 0.5 to 0.9.
C8_SingleMaximum ==
    /\ After("lambdavec") =>
          /\ lambdavec[0] = Rat(1, 2)
          /\ lambdavec[N_layers - 1] = Rat(9, 10)
          /\ \A l \in 0..(N_layers - 2) : RatLess(lambdavec[l], lambdavec[l + 1])
    /\ After("c2_22") =>
          \A l \in Layers :
              /\ c2[l][2][2] = lambdavec[l]
              /\ RatLess(c2[l][1][1], c2[l][2][2])
              /\ RatLess(c2[l][0][0], c2[l][1][1])

C8_Witness ==
    /\ pc = "for_ii"
    /\ N_layers = 3
    /\ lambdavec[1] = Rat(7, 10)
    /\ c2[1][2][2] = Rat(7, 10)
    /\ c2[1][1][1] = Rat(21, 100)
    /\ c2[1][0][0] = Rat(9, 100)

Trace(t) == RatAdd(RatAdd(t[0][0], t[1][1]), t[2][2])

\* C9: every structure tensor is a valid orientation tensor: its diagonal
\* entries are >= 0 and their sum is exactly 1.
C9_UnitTrace ==
    After("c2_22") =>
        \A l \in Layers :
            /\ \A a \in 0..2 : ~RatLess(c2[l][a][a], RatZero)
            /\ Trace(c2[l]) = RatOne

C9_Witness ==
    /\ pc = "zero_top"
    /\ N_layers = N_layers_demo
    /\ c2[99][0][0] = Rat(3, 100)
    /\ c2[99][1][1] = Rat(7, 100)
    /\ c2[99][2][2] = Rat(9, 10)
    /\ c2[50][2][2] = Rat(139, 198)

\* C10: each index of the plot_ODF loop names an existing row of nlm and entry
\* of z, none of them is the top layer, and the lm passed to plot_ODF is the
\* one returned by the last c2_to_nlm call of the conversion loop.
C10_PlotIndicesValid ==
    /\ fault # "index"
    /\ \A i \in CallsOf("plot_ODF") :
          LET I == calls[i].arg.I
              l == PyIndex(I, N_layers)
          IN  /\ I = PlotIndices(N_layers)[i - N_layers]
              /\ l \in Layers \ {0}
              /\ l \in DOMAIN nlm /\ l \in DOMAIN z
              /\ calls[i].arg.nlm = nlm[l]
              /\ calls[i].arg.z = z[l]
              /\ calls[N_layers].fn = "c2_to_nlm"
              /\ calls[N_layers].arg = N_layers - 1
              /\ calls[i].arg.lm = c2_to_nlm(c2[N_layers - 1]).lm
              /\ calls[i].arg.lm = lm

C10_Witness ==
    /\ pc = "LayerStack"
    /\ N_layers = 2
    /\ nplots = 3
    /\ Cardinality(CallsOf("plot_ODF")) = 3
    /\ \A i \in CallsOf("plot_ODF") : PyIndex(calls[i].arg.I, N_layers) = 1

====
